---- MODULE Spec2Model ----
(***************************************************************************)
(* Patient service of the hospital API: the patients table and the tables  *)
(* the search joins to, the PatientService operations and the HTTP         *)
(* handlers that wrap them.                                                *)
(*                                                                         *)
(* A nullable value is a sequence of length 0 (NULL / None) or 1.          *)
(* A date, and a timestamp, is a tuple <<year, month, day>>.               *)
(***************************************************************************)
EXTENDS Integers, Sequences, FiniteSets, TLC

VARIABLES
    patients,       \* table "patients": a set of rows
    risk_factors,   \* table "patient_risk_factors": a set of rows
    diagnoses,      \* table "diagnoses": a set of rows
    contact_info,   \* table "patient_contact_info": a set of rows
    issued,         \* the identifiers uuid.uuid4 has returned so far
    now,            \* the database clock, func.now() / current_date
    sessions,       \* the ORM session of each request being served concurrently
    resp,           \* the last request served and its response
    deleted,        \* history: ids whose delete_patient succeeded
    lastCommit      \* history: the session whose update committed last

vars == <<patients, risk_factors, diagnoses, contact_info, issued, now,
          sessions, resp, deleted, lastCommit>>

---------------------------------------------------------------------------
(* Bounds *)

MaxUUID == 2        \* identifiers uuid4 can draw from
MaxDays == 1        \* days the clock advances past Epoch
MaxRows == 2        \* rows of the related tables together
MaxContacts == 1    \* rows of the contact table
MaxLimit == 2       \* largest skip / limit of a list request

---------------------------------------------------------------------------
(* Values *)

None == <<>>

Range(seq) == {seq[i] : i \in 1..Len(seq)}
Some(v) == <<v>>

UUIDs == 1..MaxUUID

Epoch == <<2021, 2, 28>>

IsLeap(y) == (y % 4 = 0 /\ y % 100 # 0) \/ y % 400 = 0

DaysInMonth(y, m) ==
    IF m = 2 THEN (IF IsLeap(y) THEN 29 ELSE 28)
    ELSE IF m \in {4, 6, 9, 11} THEN 30 ELSE 31

NextDay(d) ==
    IF d[3] < DaysInMonth(d[1], d[2]) THEN <<d[1], d[2], d[3] + 1>>
    ELSE IF d[2] < 12 THEN <<d[1], d[2] + 1, 1>>
    ELSE <<d[1] + 1, 1, 1>>

DateLT(a, b) ==
    \/ a[1] < b[1]
    \/ a[1] = b[1] /\ a[2] < b[2]
    \/ a[1] = b[1] /\ a[2] = b[2] /\ a[3] < b[3]

DateLE(a, b) == a = b \/ DateLT(a, b)

RECURSIVE AddDays(_, _)
AddDays(d, n) == IF n = 0 THEN d ELSE AddDays(NextDay(d), n - 1)

LastDay == AddDays(Epoch, MaxDays)

---------------------------------------------------------------------------
(* Schemas: the request payloads *)

Fields ==
    {"mrn", "first_name", "middle_name", "last_name", "date_of_birth",
     "gender", "biological_sex", "blood_type", "ethnicity", "race",
     "preferred_language", "marital_status", "occupation", "is_deceased",
     "deceased_date"}

Required ==
    {"mrn", "first_name", "last_name", "date_of_birth", "gender",
     "biological_sex"}

FieldDefault(f) == IF f = "is_deceased" THEN Some(FALSE) ELSE None

\* The request bodies the clients send: a JSON object, as a function from the
\* keys present to their values.
Ann == [mrn |-> "M1", first_name |-> "Ann", last_name |-> "Lee",
        date_of_birth |-> <<2020, 2, 29>>, gender |-> "F",
        biological_sex |-> "F"]

Bob == [mrn |-> "M2", first_name |-> "Bob", last_name |-> "Roy",
        date_of_birth |-> <<2019, 12, 31>>, gender |-> "M",
        biological_sex |-> "M"]

BobFull ==
    Bob @@ [middle_name |-> Some("J"), blood_type |-> Some("O+"),
            ethnicity |-> Some("Hispanic"), race |-> Some("Asian"),
            preferred_language |-> Some("en"),
            marital_status |-> Some("single"),
            occupation |-> Some("nurse"), is_deceased |-> Some(TRUE),
            deceased_date |-> Some(<<2021, 2, 1>>)]

Incomplete == [mrn |-> "M1", first_name |-> "Dee"]

Bodies == {Ann, Bob, BobFull, Incomplete}

AnnEthnicity == Ann @@ [ethnicity |-> Some("Hispanic")]

AnnRace == Ann @@ [race |-> Some("Asian"), is_deceased |-> None]

\* pydantic validation of a body against PatientBase: every required field
\* must be present.
Validates(body) == Required \subseteq DOMAIN body

\* PatientBase(**body): the parsed model, every declared field with the
\* body's value or the declared default, and the set of fields the body gave.
PatientBase(body) ==
    [values |-> [f \in Fields |->
                    IF f \in DOMAIN body THEN body[f] ELSE FieldDefault(f)],
     fields_set |-> Fields \cap DOMAIN body]

\* patient.dict(exclude_unset=True): only the fields the body gave.
ModelDictExcludeUnset(model) == [f \in model.fields_set |-> model.values[f]]

\* patient.dict(): every declared field of the model.
ModelDict(model) == [f \in Fields |-> model.values[f]]

\* The response_model of the patient endpoints: the summary of a row. The ORM
\* object has no email attribute, so the summary's email is its default.
PatientSummary(row) ==
    [patient_id |-> row.patient_id, first_name |-> row.first_name,
     last_name |-> row.last_name, email |-> None,
     created_at |-> row.created_at, updated_at |-> row.updated_at]

---------------------------------------------------------------------------
(* Models: the tables and their constraints *)

ColumnDefault(f) == IF f = "is_deceased" THEN Some(FALSE) ELSE None

\* Patient(**kwargs) as the INSERT stores it: the given columns, the column
\* default for the others, the generated primary key and the server-side
\* timestamps.
NewPatient(kwargs, id, t) ==
    [k \in Fields \cup {"patient_id", "created_at", "updated_at"} |->
        IF k = "patient_id" THEN id
        ELSE IF k \in {"created_at", "updated_at"} THEN t
        ELSE IF k \in DOMAIN kwargs THEN kwargs[k]
        ELSE ColumnDefault(k)]

\* default=uuid.uuid4: a fresh identifier, never one returned before. The
\* reusing variant draws any identifier no stored row holds.
Uuid4Reusing(tbl, used) == UUIDs \ {p.patient_id : p \in tbl}

uuid4(tbl, used) == UUIDs \ used

\* unique=True on patients.mrn: would storing mrn in the row with this id
\* collide with another row? The variant is the column without the constraint.
MrnNotUnique(tbl, id, mrn) == FALSE

MrnTaken(tbl, id, mrn) ==
    \E p \in tbl : p.patient_id # id /\ p.mrn = mrn

\* The patient ids the rows of the related tables refer to. Their patient_id
\* columns are NOT NULL foreign keys without ON DELETE.
Referenced(rf, dg, ci) ==
    {r.patient_id : r \in rf} \cup {r.patient_id : r \in dg}
        \cup {r.patient_id : r \in ci}

---------------------------------------------------------------------------
(* The ORM session *)

\* db.query(Patient).filter(Patient.patient_id == patient_id).first()
First(tbl, id) ==
    LET found == {p \in tbl : p.patient_id = id}
    IN  IF found = {} THEN None ELSE Some(CHOOSE p \in found : TRUE)

\* for key, value in items: setattr(db_patient, key, value)
SetAttrs(db_patient, items) ==
    [k \in DOMAIN db_patient |->
        IF k \in DOMAIN items THEN items[k] ELSE db_patient[k]]

\* The columns the flush writes: every column, whether or not it changed.
AllColumns(loaded, current) == Fields

\* The columns the flush writes: those whose value differs from the loaded one.
NetChanges(loaded, current) == {f \in Fields : current[f] # loaded[f]}

\* db.commit() of a session holding one object loaded as `loaded` and now
\* `current`, followed by db.refresh(): the UPDATE of the changed columns
\* (none changed: no UPDATE, and onupdate does not fire), against the row as
\* the table holds it at that moment.
CommitUpdate(tbl, loaded, current, t) ==
    LET cols == NetChanges(loaded, current)
        target == First(tbl, loaded.patient_id)
    IN  IF target = None
        THEN [patients |-> tbl, result |-> None, error |-> TRUE]
        ELSE IF cols = {}
        THEN [patients |-> tbl, result |-> target, error |-> FALSE]
        ELSE IF "mrn" \in cols /\ MrnTaken(tbl, loaded.patient_id, current.mrn)
        THEN [patients |-> tbl, result |-> None, error |-> TRUE]
        ELSE LET row == [k \in DOMAIN target[1] |->
                            IF k \in cols THEN current[k]
                            ELSE IF k = "updated_at" THEN t
                            ELSE target[1][k]]
             IN  [patients |-> (tbl \ {target[1]}) \cup {row},
                  result |-> Some(row), error |-> FALSE]

---------------------------------------------------------------------------
(* PatientService *)

get_patient(tbl, patient_id) == First(tbl, patient_id)

\* The orders in which a SELECT without ORDER BY may return the rows of a
\* table: the database promises none, so any order, anew for each statement.
RowOrders(tbl) ==
    {ord \in [1..Cardinality(tbl) -> tbl] :
        \A i, j \in 1..Cardinality(tbl) : ord[i] = ord[j] => i = j}

Min(a, b) == IF a < b THEN a ELSE b

\* db.query(Patient).offset(skip).limit(limit).all(), the SELECT returning
\* its rows in the order ord.
get_patients(ord, skip, limit) ==
    SubSeq(ord, skip + 1, Min(skip + limit, Len(ord)))

create_patient(tbl, patient, id, t) ==
    LET db_patient == NewPatient(ModelDict(patient), id, t)
    IN  IF MrnTaken(tbl, id, db_patient.mrn)
        THEN [patients |-> tbl, result |-> None, error |-> TRUE]
        ELSE [patients |-> tbl \cup {db_patient},
              result |-> Some(db_patient), error |-> FALSE]

\* update_patient that stores the payload under the id when no row has it.
UpdateOrInsert(tbl, patient_id, patient, t) ==
    LET db_patient == First(tbl, patient_id)
    IN  IF db_patient = None
        THEN create_patient(tbl, patient, patient_id, t)
        ELSE CommitUpdate(tbl, db_patient[1],
                          SetAttrs(db_patient[1], ModelDict(patient)), t)

update_patient(tbl, patient_id, patient, t) ==
    LET db_patient == First(tbl, patient_id)
    IN  IF db_patient = None
        THEN [patients |-> tbl, result |-> None, error |-> FALSE]
        ELSE CommitUpdate(tbl, db_patient[1],
                          SetAttrs(db_patient[1], ModelDict(patient)), t)

\* db.delete() sets the patient_id of the patient's related rows to NULL,
\* which their NOT NULL constraint rejects at commit.
delete_patient(tbl, referenced, patient_id) ==
    LET db_patient == First(tbl, patient_id)
    IN  IF db_patient = None
        THEN [patients |-> tbl, result |-> None, error |-> FALSE]
        ELSE IF patient_id \in referenced
        THEN [patients |-> tbl, result |-> None, error |-> TRUE]
        ELSE [patients |-> tbl \ {db_patient[1]},
              result |-> db_patient, error |-> FALSE]

\* The rows of the icd_codes table; no endpoint writes it.
ICDCodes ==
    {[icd_code_id |-> 1, code |-> "I10"], [icd_code_id |-> 2, code |-> "E11"]}

\* PostgreSQL's age(current_date, date_of_birth) and date_part('year', ...):
\* the field-wise difference, negated when the date of birth is in the
\* future, with negative days and months borrowed from the next field, and
\* the sign put back.
RECURSIVE BorrowDays(_, _, _)
BorrowDays(mday, mon, monthLength) ==
    IF mday < 0 THEN BorrowDays(mday + monthLength, mon - 1, monthLength)
    ELSE mon

RECURSIVE BorrowMonths(_, _)
BorrowMonths(mon, year) ==
    IF mon < 0 THEN BorrowMonths(mon + 12, year - 1) ELSE year

\* The year difference alone, nothing borrowed.
CalendarYearDifference(date_of_birth, today) == today[1] - date_of_birth[1]

AgeYears(date_of_birth, today) ==
    LET flip == DateLT(today, date_of_birth)
        sign == IF flip THEN -1 ELSE 1
        mday == sign * (today[3] - date_of_birth[3])
        mon == sign * (today[2] - date_of_birth[2])
        year == sign * (today[1] - date_of_birth[1])
        monthLength == IF flip THEN DaysInMonth(today[1], today[2])
                       ELSE DaysInMonth(date_of_birth[1], date_of_birth[2])
    IN  sign * BorrowMonths(BorrowDays(mday, mon, monthLength), year)

\* The scalar filters with the race filter applied to the ethnicity column.
ScalarFiltersRaceOnEthnicity(p, query, today) ==
    /\ query.age_min # None => AgeYears(p.date_of_birth, today) >= query.age_min[1]
    /\ query.age_max # None => AgeYears(p.date_of_birth, today) <= query.age_max[1]
    /\ query.gender # None => p.gender = query.gender[1]
    /\ query.ethnicity # None => p.ethnicity = query.ethnicity
    /\ query.race # None => p.ethnicity = query.race
    /\ query.is_deceased # None => p.is_deceased = query.is_deceased

\* The filters on the columns of patients: each applies when its field of the
\* query is not None. A NULL column equals no value.
ScalarFilters(p, query, today) ==
    /\ query.age_min # None => AgeYears(p.date_of_birth, today) >= query.age_min[1]
    /\ query.age_max # None => AgeYears(p.date_of_birth, today) <= query.age_max[1]
    /\ query.gender # None => p.gender = query.gender[1]
    /\ query.ethnicity # None => p.ethnicity = query.ethnicity
    /\ query.race # None => p.race = query.race
    /\ query.is_deceased # None => p.is_deceased = query.is_deceased

\* `if query.risk_factors is not None:` -- a list, empty or not.
ListNotNone(list) == list # None

\* `if query.risk_factors:` -- a list that is neither None nor empty.
Truthy(list) == list # None /\ list[1] # <<>>

\* The rows the SELECT returns for one patient: one per combination of the
\* patient's contact rows (LEFT OUTER JOIN of the joinedload: one row when
\* there are none), of its risk-factor rows named in the list (when that
\* filter is given) and of its diagnosis rows whose ICD code is in the list
\* (when that filter is given).
JoinedRows(p, query, rf, dg, ci) ==
    LET contacts == Cardinality({c \in ci : c.patient_id = p.patient_id})
        factors == Cardinality({r \in rf :
                        /\ r.patient_id = p.patient_id
                        /\ r.factor_name \in Range(query.risk_factors[1])})
        codes == Cardinality({d \in dg :
                        /\ d.patient_id = p.patient_id
                        /\ \E c \in ICDCodes :
                            /\ c.icd_code_id = d.icd_code_id
                            /\ c.code \in Range(query.diagnoses[1])})
    IN  (IF contacts = 0 THEN 1 ELSE contacts)
        * (IF Truthy(query.risk_factors) THEN factors ELSE 1)
        * (IF Truthy(query.diagnoses) THEN codes ELSE 1)

RECURSIVE Repeat(_, _)
Repeat(x, n) == IF n = 0 THEN <<>> ELSE <<x>> \o Repeat(x, n - 1)

\* The rows of the SELECT, the patients taken in the order ord: those of
\* each patient that passes the WHERE clause.
RECURSIVE SelectRows(_, _, _, _, _, _)
SelectRows(ord, query, today, rf, dg, ci) ==
    IF ord = <<>> THEN <<>>
    ELSE (IF ScalarFilters(Head(ord), query, today)
          THEN Repeat(Head(ord), JoinedRows(Head(ord), query, rf, dg, ci))
          ELSE <<>>)
            \o SelectRows(Tail(ord), query, today, rf, dg, ci)

\* The rows as they come, an entity once per row.
EveryRow(rows) == rows

\* Query.all() of a query for one entity: the entities of the rows, each
\* object once, in the order of first appearance.
RECURSIVE UniqueEntities(_)
UniqueEntities(rows) ==
    IF rows = <<>> THEN <<>>
    ELSE LET init == UniqueEntities(SubSeq(rows, 1, Len(rows) - 1))
             last == rows[Len(rows)]
         IN  IF last \in Range(init) THEN init ELSE Append(init, last)

\* The emails patient.contact_info[0].email may be: the collection is loaded
\* in no stated order, so that of any contact row of the patient.
FirstContactEmail(p, ci) ==
    LET own == {c \in ci : c.patient_id = p.patient_id}
    IN  IF own = {} THEN {None} ELSE {c.email : c \in own}

\* search_patients, the database taking the patients in the order ord and
\* loading first[id] as the first contact email of patient id.
search_patients(ord, rf, dg, ci, query, today, first) ==
    LET found == UniqueEntities(SelectRows(ord, query, today, rf, dg, ci))
    IN  [i \in 1..Len(found) |->
            [patient_id |-> found[i].patient_id,
             first_name |-> found[i].first_name,
             last_name |-> found[i].last_name,
             email |-> first[found[i].patient_id],
             created_at |-> found[i].created_at,
             updated_at |-> found[i].updated_at]]

---------------------------------------------------------------------------
(* The endpoints, one request served at a time *)

Sessions == {1, 2}

Idle == [pc |-> "idle", id |-> 0, body |-> <<>>, loaded |-> None, status |-> 0]

NoRequest ==
    [op |-> "none", id |-> 0, body |-> <<>>, status |-> 0, result |-> <<>>,
     again |-> FALSE, prior |-> <<>>, at |-> None]

\* The response the endpoint returns for a service outcome: 500 for an
\* exception, 404 for None, else the summary of the row.
Response(op, id, body, out) ==
    [op |-> op, id |-> id, body |-> body,
     status |-> IF out.error THEN 500 ELSE IF out.result = None THEN 404 ELSE 200,
     result |-> IF out.error \/ out.result = None THEN <<>>
                ELSE <<PatientSummary(out.result[1])>>,
     again |-> resp.op = op /\ resp.id = id /\ resp.body = body
                /\ resp.status = 200,
     prior |-> <<>>, at |-> None]

Unprocessable(op, id, body) ==
    [op |-> op, id |-> id, body |-> body, status |-> 422, result |-> <<>>,
     again |-> FALSE, prior |-> <<>>, at |-> None]

Related == <<risk_factors, diagnoses, contact_info>>

Stored(id) == First(patients, id) # None

Row(id) == First(patients, id)[1]

\* POST /patients/
CreatePatient(body) ==
    /\ IF Validates(body)
       THEN \E id \in uuid4(patients, issued) :
                LET out == create_patient(patients, PatientBase(body), id, now)
                IN  /\ patients' = out.patients
                    /\ issued' = issued \cup {id}
                    /\ resp' = Response("create", 0, body, out)
       ELSE /\ resp' = Unprocessable("create", 0, body)
            /\ UNCHANGED <<patients, issued>>
    /\ UNCHANGED <<Related, now, sessions, deleted, lastCommit>>

\* GET /patients/{patient_id}
ReadPatient(patient_id) ==
    /\ resp' = Response("get", patient_id, <<>>,
                        [result |-> get_patient(patients, patient_id),
                         error |-> FALSE])
    /\ UNCHANGED <<patients, Related, issued, now, sessions, deleted,
                   lastCommit>>

\* PUT /patients/{patient_id}
UpdatePatient(patient_id, body) ==
    /\ IF Validates(body)
       THEN LET out == update_patient(patients, patient_id,
                                      PatientBase(body), now)
            IN  /\ patients' = out.patients
                /\ resp' = Response("update", patient_id, body, out)
       ELSE /\ resp' = Unprocessable("update", patient_id, body)
            /\ UNCHANGED patients
    /\ UNCHANGED <<Related, issued, now, sessions, deleted, lastCommit>>

\* DELETE /patients/{patient_id}
DeletePatient(patient_id) ==
    LET out == delete_patient(patients,
                              Referenced(risk_factors, diagnoses, contact_info),
                              patient_id)
    IN  /\ patients' = out.patients
        /\ resp' = Response("delete", patient_id, <<>>, out)
        /\ deleted' = IF out.result # None THEN deleted \cup {patient_id}
                      ELSE deleted
        /\ UNCHANGED <<Related, issued, now, sessions, lastCommit>>

\* A day passes.
Tick ==
    /\ DateLT(now, LastDay)
    /\ now' = NextDay(now)
    /\ UNCHANGED <<patients, Related, issued, sessions, resp, deleted,
                   lastCommit>>

\* Another client of the database records contact details of a stored
\* patient; resp holds a response only while the database is as the request
\* left it.
Emails == {Some("a@x.org")}

InsertContactInfo(patient_id, email) ==
    /\ Cardinality(contact_info) < MaxContacts
    /\ Cardinality(risk_factors) + Cardinality(diagnoses)
            + Cardinality(contact_info) < MaxRows
    /\ Stored(patient_id)
    /\ contact_info' = contact_info \cup
            {[patient_id |-> patient_id, email |-> email,
              copy |-> 1 + Cardinality({c \in contact_info :
                            /\ c.patient_id = patient_id
                            /\ c.email = email})]}
    /\ resp' = NoRequest
    /\ UNCHANGED <<patients, risk_factors, diagnoses, issued, now, sessions,
                   deleted, lastCommit>>

Init ==
    /\ patients = {}
    /\ risk_factors = {}
    /\ diagnoses = {}
    /\ contact_info = {}
    /\ issued = {}
    /\ now = Epoch
    /\ sessions = [s \in Sessions |-> Idle]
    /\ resp = NoRequest
    /\ deleted = {}
    /\ lastCommit = 0

Next ==
    \/ \E body \in Bodies : CreatePatient(body)
    \/ \E id \in UUIDs : ReadPatient(id)
    \/ \E id \in UUIDs, body \in Bodies : UpdatePatient(id, body)
    \/ \E id \in UUIDs : DeletePatient(id)
    \/ \E id \in UUIDs, email \in Emails : InsertContactInfo(id, email)
    \/ Tick

Spec == Init /\ [][Next]_vars

---------------------------------------------------------------------------
(* PUT /patients/{patient_id} served by two workers at once: each request   *)
(* has its own session and transaction, and the database runs them READ     *)
(* COMMITTED. The steps of update_patient are its three database round      *)
(* trips: the query, the commit, the refresh.                               *)

ConcurrentBodies == {Ann, AnnEthnicity, AnnRace}

\* db.query(Patient).filter(...).first(); a missing row ends the request
\* with 404.
QueryStep(s, patient_id, body) ==
    /\ sessions[s].pc = "idle"
    /\ sessions[s].status = 0
    /\ LET db_patient == First(patients, patient_id)
       IN  sessions' = [sessions EXCEPT ![s] =
                [pc |-> IF db_patient = None THEN "idle" ELSE "loaded",
                 id |-> patient_id, body |-> body, loaded |-> db_patient,
                 status |-> IF db_patient = None THEN 404 ELSE 0]]
    /\ UNCHANGED <<patients, Related, issued, now, resp, deleted, lastCommit>>

\* the setattr loop and db.commit()
CommitStep(s) ==
    /\ sessions[s].pc = "loaded"
    /\ LET db_patient == sessions[s].loaded[1]
           out == CommitUpdate(patients, db_patient,
                               SetAttrs(db_patient,
                                        ModelDict(PatientBase(sessions[s].body))),
                               now)
       IN  /\ patients' = out.patients
           /\ sessions' = [sessions EXCEPT
                            ![s].pc = IF out.error THEN "idle" ELSE "committed",
                            ![s].status = IF out.error THEN 500 ELSE 0]
           /\ lastCommit' = IF out.error THEN lastCommit ELSE s
    /\ UNCHANGED <<Related, issued, now, resp, deleted>>

\* db.refresh(db_patient) and the response
RefreshStep(s) ==
    /\ sessions[s].pc = "committed"
    /\ sessions' = [sessions EXCEPT
                     ![s].pc = "idle",
                     ![s].status = IF Stored(sessions[s].id) THEN 200 ELSE 500]
    /\ UNCHANGED <<patients, Related, issued, now, resp, deleted, lastCommit>>

NextConcurrent ==
    \/ CreatePatient(Ann)
    \/ \E id \in UUIDs : DeletePatient(id)
    \/ \E s \in Sessions, id \in UUIDs, body \in ConcurrentBodies :
            QueryStep(s, id, body)
    \/ \E s \in Sessions : CommitStep(s)
    \/ \E s \in Sessions : RefreshStep(s)
    \/ Tick

SpecConcurrent == Init /\ [][NextConcurrent]_vars

\* C2: when two update_patient requests for the same patient have both
\* committed, the stored record equals, field for field, the payload of the
\* one that committed last.
C2_LastWriteWins ==
    (/\ \A s \in Sessions : sessions[s].status = 200
     /\ sessions[1].id = sessions[2].id
     /\ Stored(sessions[1].id))
    => LET body == sessions[lastCommit].body
       IN  \A f \in Fields :
            Row(sessions[1].id)[f] =
                IF f \in DOMAIN body THEN body[f]
                ELSE IF f = "is_deceased" THEN <<FALSE>> ELSE <<>>

---------------------------------------------------------------------------
(* GET /patients/ *)

ReadPatients(skip, limit) ==
    /\ \E ord \in RowOrders(patients) :
        LET page == get_patients(ord, skip, limit)
        IN  resp' = [op |-> "list", id |-> 0,
                     body |-> [skip |-> skip, limit |-> limit],
                     status |-> 200,
                     result |-> [i \in 1..Len(page) |-> PatientSummary(page[i])],
                     again |-> FALSE,
                     prior |-> IF resp.op = "list"
                               THEN <<[skip |-> resp.body.skip,
                                       limit |-> resp.body.limit,
                                       result |-> resp.result]>>
                               ELSE <<>>,
                     at |-> None]
    /\ UNCHANGED <<patients, Related, issued, now, sessions, deleted,
                   lastCommit>>

NextList ==
    \/ \E body \in {Ann, Bob} : CreatePatient(body)
    \/ \E id \in UUIDs : DeletePatient(id)
    \/ \E skip \in 0..MaxLimit, limit \in 0..MaxLimit : ReadPatients(skip, limit)
    \/ Tick

SpecList == Init /\ [][NextList]_vars

\* C4: with no write in between, a page requested with skip = 0 and limit = n
\* followed by the page with skip = n and limit = n are disjoint and together
\* hold the first 2n patients of one ordering of the stored patients (all of
\* them when fewer are stored), none twice and none left out. The endpoint's
\* default n is 10; the property is stated for every page size n >= 1.
C4_PagesDisjointAndComplete ==
    (/\ resp.op = "list" /\ resp.prior # <<>>
     /\ resp.prior[1].skip = 0 /\ resp.prior[1].limit >= 1
     /\ resp.body.skip = resp.prior[1].limit
     /\ resp.body.limit = resp.prior[1].limit)
    => LET first == {r.patient_id : r \in Range(resp.prior[1].result)}
           second == {r.patient_id : r \in Range(resp.result)}
       IN  /\ first \cap second = {}
           /\ Cardinality(first \cup second)
                = Min(2 * resp.body.limit, Cardinality(patients))

---------------------------------------------------------------------------
(* POST /patients/search *)

\* PatientQuery(**body): every filter with the body's value, None when the
\* body leaves it out.
QueryFields ==
    {"age_min", "age_max", "gender", "risk_factors", "diagnoses", "ethnicity",
     "race", "is_deceased"}

PatientQuery(body) ==
    [f \in QueryFields |-> IF f \in DOMAIN body THEN body[f] ELSE None]

\* The query bodies the clients send.
QueryBodies ==
    { <<>>,
      [age_min |-> Some(1)], [age_max |-> Some(0)], [age_max |-> Some(1)],
      [gender |-> Some("F")], [ethnicity |-> Some("Hispanic")],
      [race |-> Some("Asian")],
      [is_deceased |-> Some(FALSE)], [is_deceased |-> Some(TRUE)],
      [risk_factors |-> Some(<<>>)],
      [risk_factors |-> Some(<<"Hypertension">>)],
      [risk_factors |-> Some(<<"Hypertension", "Smoking">>)],
      [diagnoses |-> Some(<<>>)], [diagnoses |-> Some(<<"I10">>)],
      [diagnoses |-> Some(<<"E11">>)],
      [age_min |-> Some(1), age_max |-> Some(0)],
      [age_min |-> Some(1), age_max |-> Some(1)],
      [age_min |-> Some(0), age_max |-> Some(0)],
      [risk_factors |-> Some(<<"Hypertension">>), diagnoses |-> Some(<<"I10">>)],
      [risk_factors |-> Some(<<"Hypertension", "Smoking">>),
       diagnoses |-> Some(<<"I10">>)],
      [risk_factors |-> Some(<<>>), diagnoses |-> Some(<<"I10">>)],
      [risk_factors |-> Some(<<"Smoking">>), diagnoses |-> Some(<<>>)],
      [gender |-> Some("F"), risk_factors |-> Some(<<"Hypertension">>)],
      [ethnicity |-> Some("Hispanic"), race |-> Some("Asian")],
      [gender |-> Some("F"), is_deceased |-> Some(FALSE)],
      [age_max |-> Some(1), gender |-> Some("F")],
      [race |-> Some("Asian"), diagnoses |-> Some(<<"I10">>)],
      [is_deceased |-> Some(FALSE),
       risk_factors |-> Some(<<"Hypertension", "Smoking">>)],
      [age_min |-> Some(0), age_max |-> Some(1), gender |-> Some("F"),
       risk_factors |-> Some(<<"Hypertension">>),
       diagnoses |-> Some(<<"I10">>), ethnicity |-> Some("Hispanic"),
       race |-> Some("Asian"), is_deceased |-> Some(FALSE)] }

Queries == {PatientQuery(body) : body \in QueryBodies}

SearchPatients(query) ==
    /\ \E ord \in RowOrders(patients) :
       \E first \in [{p.patient_id : p \in patients} ->
                        {None} \cup {c.email : c \in contact_info}] :
        /\ \A p \in patients :
                first[p.patient_id] \in FirstContactEmail(p, contact_info)
        /\ resp' = [op |-> "search", id |-> 0, body |-> query,
                    status |-> 200,
                    result |-> search_patients(ord, risk_factors, diagnoses,
                                               contact_info, query, now, first),
                    again |-> FALSE, prior |-> <<>>, at |-> Some(now)]
    /\ UNCHANGED <<patients, Related, issued, now, sessions, deleted,
                   lastCommit>>

\* Other clients of the database record risk factors and diagnoses of stored
\* patients. The service never reads the primary key of these rows: rows
\* that agree on the columns it reads are told apart by `copy`.
RiskFactorNames == {"Hypertension", "Smoking"}

InsertRiskFactor(patient_id, name) ==
    /\ Cardinality(risk_factors) + Cardinality(diagnoses)
            + Cardinality(contact_info) < MaxRows
    /\ Stored(patient_id)
    /\ risk_factors' = risk_factors \cup
            {[patient_id |-> patient_id, factor_name |-> name,
              copy |-> 1 + Cardinality({r \in risk_factors :
                            /\ r.patient_id = patient_id
                            /\ r.factor_name = name})]}
    /\ resp' = NoRequest
    /\ UNCHANGED <<patients, diagnoses, contact_info, issued, now, sessions,
                   deleted, lastCommit>>

InsertDiagnosis(patient_id, icd_code_id) ==
    /\ Cardinality(risk_factors) + Cardinality(diagnoses)
            + Cardinality(contact_info) < MaxRows
    /\ Stored(patient_id)
    /\ \E c \in ICDCodes : c.icd_code_id = icd_code_id
    /\ diagnoses' = diagnoses \cup
            {[patient_id |-> patient_id, icd_code_id |-> icd_code_id,
              copy |-> 1 + Cardinality({d \in diagnoses :
                            /\ d.patient_id = patient_id
                            /\ d.icd_code_id = icd_code_id})]}
    /\ resp' = NoRequest
    /\ UNCHANGED <<patients, risk_factors, contact_info, issued, now, sessions,
                   deleted, lastCommit>>

\* The patients tables the search is run on: patients created at Epoch.
Cy == [mrn |-> "M2", first_name |-> "Cy", last_name |-> "Lee",
       date_of_birth |-> <<2021, 3, 1>>, gender |-> "F",
       biological_sex |-> "F", is_deceased |-> Some(FALSE)]

Created(bodies) ==
    {NewPatient(ModelDict(PatientBase(bodies[i])), i, Epoch) :
        i \in 1..Len(bodies)}

InitSearch ==
    /\ patients \in {Created(<<AnnRace, BobFull>>),
                     Created(<<Cy, AnnEthnicity>>)}
    /\ issued = {p.patient_id : p \in patients}
    /\ risk_factors = {}
    /\ diagnoses = {}
    /\ contact_info = {}
    /\ now = Epoch
    /\ sessions = [s \in Sessions |-> Idle]
    /\ resp = NoRequest
    /\ deleted = {}
    /\ lastCommit = 0

NextSearch ==
    \/ \E query \in Queries : SearchPatients(query)
    \/ \E id \in UUIDs, name \in RiskFactorNames : InsertRiskFactor(id, name)
    \/ \E id \in UUIDs : InsertDiagnosis(id, 1)
    \/ \E id \in UUIDs, email \in Emails : InsertContactInfo(id, email)
    \/ Tick

SpecSearch == InitSearch /\ [][NextSearch]_vars

---------------------------------------------------------------------------
(* Properties of the endpoints served one at a time (Spec) *)

\* C1: once delete_patient has succeeded for an id, get_patient for that id
\* returns None, and the endpoint answers 404, in every later state, whatever
\* requests follow.
C1_DeletedIdStaysNotFound ==
    \A id \in deleted :
        /\ get_patient(patients, id) = None
        /\ (resp.op = "get" /\ resp.id = id) => resp.status = 404

\* A deleted id is asked for again after another patient has been created.
C1_Witness ==
    /\ resp.op = "get" /\ resp.id \in deleted /\ resp.status = 404
    /\ patients # {}

\* The step serves a request of the kind op: it answers it, and neither the
\* clock nor a session moves.
Served(op) == resp'.op = op /\ UNCHANGED <<now, sessions>>

\* C5: no two stored patients have the same mrn, and a create or an update
\* whose payload carries the mrn of another stored patient fails with an error
\* and leaves the patients table as it was.
C5_MrnUnique ==
    /\ [](\A p, q \in patients : p.mrn = q.mrn => p = q)
    /\ [][ /\ (/\ Served("create")
               /\ resp'.status # 422
               /\ \E p \in patients : p.mrn = resp'.body.mrn)
              => (patients' = patients /\ resp'.status = 500)
           /\ (/\ Served("update")
               /\ resp'.status # 422
               /\ Stored(resp'.id)
               /\ \E p \in patients :
                    p.patient_id # resp'.id /\ p.mrn = resp'.body.mrn)
              => (patients' = patients /\ resp'.status = 500) ]_vars

\* An update carrying the other patient's mrn has been refused.
C5_Witness ==
    /\ resp.op = "update" /\ resp.status = 500
    /\ Cardinality(patients) = 2
    /\ \E p \in patients : p.patient_id # resp.id /\ p.mrn = resp.body.mrn

\* C6: update_patient and delete_patient for an id that is not stored answer
\* not found (404) and leave every table unchanged.
C6_AbsentIdNotFound ==
    [][ ((Served("update") \/ Served("delete"))
            /\ resp'.status # 422 /\ ~Stored(resp'.id))
        => (resp'.status = 404 /\ UNCHANGED <<patients, Related>>) ]_vars

\* An update of an id that is not stored, while other patients are.
C6_Witness ==
    /\ resp.op = "update" /\ resp.status = 404
    /\ patients # {} /\ ~Stored(resp.id)

\* C7: a successful update_patient leaves every declared field equal to the
\* payload's value, an optional field the body left out at its default (NULL,
\* FALSE for is_deceased); the patient keeps its id, and the other patients
\* and the related tables are unchanged.
C7_UpdateOverwritesEveryField ==
    [][ (Served("update") /\ resp'.status = 200)
        => /\ \E row \in patients' :
                /\ row.patient_id = resp'.id
                /\ \A f \in Fields \cap DOMAIN resp'.body :
                        row[f] = resp'.body[f]
                /\ \A f \in Fields \ DOMAIN resp'.body :
                        row[f] = IF f = "is_deceased" THEN <<FALSE>> ELSE <<>>
           /\ {p.patient_id : p \in patients'} = {p.patient_id : p \in patients}
           /\ {p \in patients' : p.patient_id # resp'.id}
                = {p \in patients : p.patient_id # resp'.id}
           /\ UNCHANGED Related ]_vars

\* An update with a body that leaves the optional fields out has changed a
\* stored patient.
C7_Witness ==
    /\ resp.op = "update" /\ resp.status = 200 /\ resp.body = Bob
    /\ Stored(resp.id)
    /\ Row(resp.id).updated_at # Row(resp.id).created_at

\* C8: applying the update payload that was just applied to the same patient
\* once more, with no other request in between, leaves the patients table as
\* the first application left it.
C8_UpdateIdempotent ==
    [][ (/\ Served("update")
         /\ resp.op = "update" /\ resp.status = 200
         /\ resp'.id = resp.id /\ resp'.body = resp.body)
        => patients' = patients ]_vars

\* The same update has been applied twice, the second time on a later day.
C8_Witness ==
    /\ resp.op = "update" /\ resp.status = 200 /\ resp.again
    /\ Stored(resp.id)
    /\ Row(resp.id).updated_at # now

---------------------------------------------------------------------------
(* Properties of the search (SpecSearch) *)

Searched == resp.op = "search"

Entries(id) == {i \in 1..Len(resp.result) : resp.result[i].patient_id = id}

Returned == {resp.result[i].patient_id : i \in 1..Len(resp.result)}

\* A patient's age in whole years on a day: the number of its birthdays up to
\* and including that day; for a date of birth after the day, minus the number
\* of whole years from the day to the date of birth.
Birthdays(from, to) ==
    Cardinality({k \in 1..(to[1] - from[1]) :
                    DateLE(<<from[1] + k, from[2], from[3]>>, to)})

WholeYears(date_of_birth, day) ==
    IF DateLE(date_of_birth, day) THEN Birthdays(date_of_birth, day)
    ELSE 0 - Birthdays(day, date_of_birth)

HasRiskFactorIn(p, names) ==
    \E r \in risk_factors :
        r.patient_id = p.patient_id /\ r.factor_name \in Range(names)

HasDiagnosisIn(p, codes) ==
    \E d \in diagnoses, c \in ICDCodes :
        /\ d.patient_id = p.patient_id
        /\ d.icd_code_id = c.icd_code_id
        /\ c.code \in Range(codes)

\* Does patient p satisfy the filter f of the query, by the contract of the
\* filters: equality for gender, ethnicity, race and is_deceased, inclusive
\* bounds on the age in whole years, membership for the two lists.
Satisfies(p, query, f, day) ==
    CASE f = "age_min" -> WholeYears(p.date_of_birth, day) >= query.age_min[1]
      [] f = "age_max" -> WholeYears(p.date_of_birth, day) <= query.age_max[1]
      [] f = "gender" -> p.gender = query.gender[1]
      [] f = "ethnicity" -> p.ethnicity = query.ethnicity
      [] f = "race" -> p.race = query.race
      [] f = "is_deceased" -> p.is_deceased = query.is_deceased
      [] f = "risk_factors" -> HasRiskFactorIn(p, query.risk_factors[1])
      [] f = "diagnoses" -> HasDiagnosisIn(p, query.diagnoses[1])

\* Does the query constrain by filter f: it is not null and, for the two
\* lists, not empty.
Given(query, f) ==
    /\ query[f] # None
    /\ f \in {"risk_factors", "diagnoses"} => query[f][1] # <<>>

\* C3: a search with a risk_factors or diagnoses filter returns no patient
\* twice, and returns exactly once each patient that satisfies the filters,
\* however many of its risk-factor or diagnosis rows are in the given list.
C3_EachPatientOnce ==
    (Searched /\ (Given(resp.body, "risk_factors") \/ Given(resp.body, "diagnoses")))
    => \A p \in patients :
        /\ Cardinality(Entries(p.patient_id)) <= 1
        /\ (\A f \in QueryFields :
                Given(resp.body, f) => Satisfies(p, resp.body, f, resp.at[1]))
           => Cardinality(Entries(p.patient_id)) = 1

\* A returned patient has two risk-factor rows named in the list.
C3_Witness ==
    /\ Searched /\ Given(resp.body, "risk_factors")
    /\ \E id \in Returned :
        Cardinality({r \in risk_factors :
            /\ r.patient_id = id
            /\ r.factor_name \in Range(resp.body.risk_factors[1])}) >= 2

\* C9 as stated: the filters that are present are those that are not null,
\* and a patient is returned if and only if it satisfies every one of them.
C9_AndOverNonNullFilters ==
    Searched =>
        Returned = {p.patient_id : p \in
            {p \in patients :
                \A f \in QueryFields :
                    resp.body[f] # None
                        => Satisfies(p, resp.body, f, resp.at[1])}}

\* C9, amended: the filters that constrain are those that are not null and,
\* for risk_factors and diagnoses, not the empty list; a patient is returned
\* if and only if it satisfies every one of them, so that a query with no
\* filter returns every stored patient.
C9_AndOverGivenFilters ==
    Searched =>
        Returned = {p.patient_id : p \in
            {p \in patients :
                \A f \in QueryFields :
                    Given(resp.body, f)
                        => Satisfies(p, resp.body, f, resp.at[1])}}

\* A search with two filters has returned one of two stored patients.
C9_Witness ==
    /\ Searched
    /\ Cardinality({f \in QueryFields : resp.body[f] # None}) >= 2
    /\ Cardinality(patients) = 2
    /\ Len(resp.result) = 1

\* C10: a search with age_min = a and age_max = b returns only patients whose
\* age in whole years at the time of the query is at least a and at most b,
\* and with a > b it answers 200 with an empty list.
C10_AgeBoundsInclusive ==
    (Searched /\ resp.body.age_min # None /\ resp.body.age_max # None)
    => /\ resp.status = 200
       /\ \A p \in patients :
            p.patient_id \in Returned
            => /\ resp.body.age_min[1] <= WholeYears(p.date_of_birth, resp.at[1])
               /\ WholeYears(p.date_of_birth, resp.at[1]) <= resp.body.age_max[1]
       /\ resp.body.age_min[1] > resp.body.age_max[1] => resp.result = <<>>

\* A search for the ages 1 to 1 has returned the patient born on 29 February
\* 2020 on 1 March 2021, and left out a younger one.
C10_Witness ==
    /\ Searched /\ resp.body.age_min = Some(1) /\ resp.body.age_max = Some(1)
    /\ Len(resp.result) = 1
    /\ Cardinality(patients) = 2
    /\ \E p \in patients :
        /\ p.patient_id \in Returned
        /\ p.date_of_birth = <<2020, 2, 29>>
        /\ resp.at[1] = <<2021, 3, 1>>

\* C11: a search whose risk_factors (or diagnoses) is the empty list returns
\* what the same query with that field null returns on the same tables at the
\* same time: the patients are not constrained by the related table, and the
\* result is not empty because of the empty list.
C11_EmptyListLikeAbsent ==
    \A f \in {"risk_factors", "diagnoses"} :
        (Searched /\ resp.body[f] = Some(<<>>))
        => \E ord \in RowOrders(patients) :
           \E first \in [{p.patient_id : p \in patients} ->
                            {None} \cup {c.email : c \in contact_info}] :
            /\ \A p \in patients :
                first[p.patient_id] \in FirstContactEmail(p, contact_info)
            /\ resp.result =
                search_patients(ord, risk_factors, diagnoses, contact_info,
                                [resp.body EXCEPT ![f] = None], resp.at[1],
                                first)

\* A search with risk_factors = [] and diagnoses = ["I10"] has returned one of
\* two stored patients, one that has no risk-factor row.
C11_Witness ==
    /\ Searched
    /\ resp.body.risk_factors = Some(<<>>)
    /\ resp.body.diagnoses = Some(<<"I10">>)
    /\ Cardinality(patients) = 2
    /\ Len(resp.result) = 1
    /\ \A r \in risk_factors : r.patient_id \notin Returned

====
